---- MODULE Spec2Model ----
(***************************************************************************)
(* Baby SNARK (babysnark.py): Setup / Prove / Verify for Square Span       *)
(* Programs, as run by the module-level script.                            *)
(*                                                                         *)
(* Field elements are the integers 0..P-1 with arithmetic mod P.  A group  *)
(* element x*G is represented by its discrete logarithm x (the group has   *)
(* order P), so point addition is field addition, scalar multiplication is *)
(* field multiplication, and pair(x*G, y*G) = GT^(x*y) is represented by   *)
(* the exponent x*y; multiplication in the target group adds exponents.    *)
(* Polynomials are coefficient sequences with trailing zeros trimmed;      *)
(* index i+1 of the sequence holds the coefficient of X^i.                 *)
(***************************************************************************)
EXTENDS Integers, Sequences, FiniteSets, TLC

\* Field modulus of the example field.
P == 53

\* Rows and columns of the constraint matrix U.
M == 2
N == 2

\* Values the entries of U, the entries of the witness and the trapdoor
\* scalars are drawn from.
UVals == {0, 1}
AVals == {1, 2, P - 1}
Trapdoors == {<<3, 2, 3>>, <<1, 2, 3>>, <<3, 0, 3>>, <<3, 2, 0>>}

NoVal == -1

----------------------------------------------------------------------------
\* Field arithmetic

FAdd(x, y) == (x + y) % P
FSub(x, y) == (x + P - y) % P
FNeg(x) == (P - x) % P
FMul(x, y) == (x * y) % P
InvTable == [x \in 1..(P - 1) |-> CHOOSE y \in 1..(P - 1) : (x * y) % P = 1]
FInv(x) == InvTable[x]
FDiv(x, y) == FMul(x, FInv(y))

RECURSIVE FPow(_, _)
FPow(x, i) == IF i = 0 THEN 1 ELSE FMul(x, FPow(x, i - 1))

Fp(k) == k % P

----------------------------------------------------------------------------
\* Polynomials over the field

RECURSIVE strip(_)
strip(c) ==
  IF c = <<>> THEN <<>>
  ELSE IF c[Len(c)] = 0 THEN strip(SubSeq(c, 1, Len(c) - 1)) ELSE c

Poly(c) == strip([i \in 1..Len(c) |-> c[i] % P])

Coef(p, i) == IF i <= Len(p) THEN p[i] ELSE 0

MaxOf(x, y) == IF x >= y THEN x ELSE y

PolyAdd(p, q) ==
  strip([i \in 1..MaxOf(Len(p), Len(q)) |-> FAdd(Coef(p, i), Coef(q, i))])

PolySub(p, q) ==
  strip([i \in 1..MaxOf(Len(p), Len(q)) |-> FSub(Coef(p, i), Coef(q, i))])

PolyScale(s, p) == strip([i \in 1..Len(p) |-> FMul(s, p[i])])

RECURSIVE ConvSum(_, _, _, _)
ConvSum(p, q, k, i) ==
  IF i > Len(p) THEN 0
  ELSE FAdd(IF k + 1 - i >= 1 /\ k + 1 - i <= Len(q)
              THEN FMul(p[i], q[k + 1 - i]) ELSE 0,
            ConvSum(p, q, k, i + 1))

PolyMul(p, q) ==
  IF p = <<>> \/ q = <<>> THEN <<>>
  ELSE strip([k \in 1..(Len(p) + Len(q) - 1) |-> ConvSum(p, q, k, 1)])

Monomial(e, c) == [i \in 1..(e + 1) |-> IF i = e + 1 THEN c ELSE 0]

RECURSIVE PolyQuot(_, _)
PolyQuot(p, d) ==
  IF Len(p) < Len(d) THEN <<>>
  ELSE LET mono == Monomial(Len(p) - Len(d), FDiv(p[Len(p)], d[Len(d)]))
       IN  PolyAdd(mono, PolyQuot(PolySub(p, PolyMul(mono, d)), d))

RECURSIVE PolyEval(_, _)
PolyEval(p, x) ==
  IF p = <<>> THEN 0
  ELSE FAdd(p[1], FMul(x, PolyEval(SubSeq(p, 2, Len(p)), x)))

RECURSIVE SingleTerm(_, _, _)
SingleTerm(xs, i, j) ==
  IF j > Len(xs) THEN <<1>>
  ELSE IF j = i THEN SingleTerm(xs, i, j + 1)
  ELSE PolyMul(PolyScale(FInv(FSub(xs[i], xs[j])), <<FNeg(xs[j]), 1>>),
               SingleTerm(xs, i, j + 1))

\* The evaluation points of an instance with m rows:
\* rs = [Fp(1+i) for i in range(m)]
Roots(m) == [i \in 1..m |-> Fp(i)]

\* The Lagrange basis polynomials over the points xs
LagrangeBasis(xs) == [i \in 1..Len(xs) |-> SingleTerm(xs, i, 1)]

\* The bases over Roots(m), computed once for the sizes the run uses
BasisAtRoots == [m \in 1..M |-> LagrangeBasis(Roots(m))]

RECURSIVE InterpolateFrom(_, _, _)
InterpolateFrom(basis, ys, i) ==
  IF i > Len(ys) THEN <<>>
  ELSE PolyAdd(PolyScale(ys[i], basis[i]), InterpolateFrom(basis, ys, i + 1))

\* Poly.interpolate(xs, ys)
interpolate(xs, ys) ==
  InterpolateFrom(IF Len(xs) \in 1..M /\ xs = Roots(Len(xs))
                    THEN BasisAtRoots[Len(xs)] ELSE LagrangeBasis(xs),
                  ys, 1)

RECURSIVE VanishingProduct(_)
VanishingProduct(S) ==
  IF S = <<>> THEN <<1>>
  ELSE PolyMul(VanishingProduct(SubSeq(S, 1, Len(S) - 1)),
               <<FNeg(S[Len(S)]), 1>>)

\* The products over Roots(m), computed once for the sizes the run uses
VanishingAtRoots == [m \in 1..M |-> VanishingProduct(Roots(m))]

\* p(X) = (X-S1)*(X-S2)*...*(X-Sn)
vanishing_poly(S) ==
  IF Len(S) \in 1..M /\ S = Roots(Len(S)) THEN VanishingAtRoots[Len(S)]
  ELSE VanishingProduct(S)

----------------------------------------------------------------------------
\* Group and pairing, on discrete logarithms

G == 1
GT == 1
GMul(x, s) == FMul(x, s)
GAdd(x, y) == FAdd(x, y)
pair(x, y) == FMul(x, y)
GTMul(x, y) == FAdd(x, y)

\* sum([bases[i] * coeffs[i] for i in range(cnt)], G*0)
RECURSIVE GSum(_, _, _)
GSum(bases, coeffs, cnt) ==
  IF cnt = 0 THEN GMul(G, 0)
  ELSE GAdd(GSum(bases, coeffs, cnt - 1), GMul(bases[cnt], coeffs[cnt]))

----------------------------------------------------------------------------
\* Python slices of a list

\* s[:k]
Prefix(s, k) == SubSeq(s, 1, IF k <= Len(s) THEN k ELSE Len(s))

\* s[k:]
Suffix(s, k) == IF k >= Len(s) THEN <<>> ELSE SubSeq(s, k + 1, Len(s))

\* s[-k:] ; s[-0:] is the whole list
NegSlice(s, k) ==
  IF k <= 0 THEN Suffix(s, 0 - k)
  ELSE IF k >= Len(s) THEN s ELSE SubSeq(s, Len(s) - k + 1, Len(s))

----------------------------------------------------------------------------
\* Square span program instances

Rows(Um) == Len(Um)
Cols(Um) == Len(Um[1])

Column(Um, k) == [i \in 1..Rows(Um) |-> Um[i][k]]

Dot(u, w) ==
  LET RECURSIVE D(_)
      D(k) == IF k = 0 THEN 0 ELSE FAdd(D(k - 1), FMul(u[k], w[k]))
  IN  D(Len(u))

\* (U.a)^2 = 1 on every row
Satisfies(Um, w) ==
  \A i \in 1..Rows(Um) : FMul(Dot(Um[i], w), Dot(Um[i], w)) = 1

\* Us = [Poly.interpolate(rs, U[:,k]) for k in range(n)]
ColumnPolys(Um) ==
  [k \in 1..Cols(Um) |-> interpolate(Roots(Rows(Um)), Column(Um, k))]

\* acc = Poly([0]); for k in range(lo, hi): acc += w[k] * Us[k]   (0-based)
RECURSIVE Combine(_, _, _, _, _)
Combine(acc, Uk, w, lo, hi) ==
  IF lo >= hi THEN acc
  ELSE Combine(PolyAdd(acc, PolyScale(w[lo + 1], Uk[lo + 1])), Uk, w, lo + 1, hi)

----------------------------------------------------------------------------
\* Setup

\* The split check off by one: n_stmt = n is let through.
SetupSplitOK_OffByOne(Um, ns) == ns <= Cols(Um)

\* assert n_stmt < n
SetupSplitOK(Um, ns) == ns < Cols(Um)

\* The CRS with the beta terms built for every column of U, not only for
\* Us[n_stmt:].
SetupCRS_AllColumns(Um, ns, t, b, g) ==
  LET m == Rows(Um)
      wit == ColumnPolys(Um)
  IN  [i \in 1..(m + 1) |-> GMul(G, FPow(t, i - 1))]
      \o <<GMul(G, g), GMul(G, FMul(b, g))>>
      \o [j \in 1..Len(wit) |-> GMul(G, FMul(b, PolyEval(wit[j], t)))]

\* CRS = [G * (tau ** i) for i in range(m+1)] + [G * gamma, G * (beta * gamma)]
\*       + [G * (beta * Ui(tau)) for Ui in Us[n_stmt:]]
SetupCRS(Um, ns, t, b, g) ==
  LET m == Rows(Um)
      wit == Suffix(ColumnPolys(Um), ns)
  IN  [i \in 1..(m + 1) |-> GMul(G, FPow(t, i - 1))]
      \o <<GMul(G, g), GMul(G, FMul(b, g))>>
      \o [j \in 1..Len(wit) |-> GMul(G, FMul(b, PolyEval(wit[j], t)))]

\* The call babysnark_setup(U, n_stmt) when random_fp() returns t, b, g.
\* trap is what the call leaves in the globals tau, beta, gamma.
babysnark_setup(Um, ns, t, b, g, old) ==
  IF ~SetupSplitOK(Um, ns)
  THEN [res |-> "AssertionError", line |-> 121, CRS |-> <<>>, trap |-> old,
        work |-> <<>>]
  ELSE [res |-> "ok", line |-> 140, CRS |-> SetupCRS(Um, ns, t, b, g),
        trap |-> <<t, b, g>>, work |-> <<"interpolate", "sample", "crs">>]

----------------------------------------------------------------------------
\* Prover

\* assert len(CRS) == (m + 1) + 2 + (n - n_stmt)
ProverCRSLenOK(Um, ns, crs) ==
  Len(crs) = (Rows(Um) + 1) + 2 + (Cols(Um) - ns)

\* assert len(vw.coefficients) == m
ProverVwLenOK(vw, m) == Len(vw) = m

\* assert len(h.coefficients) <= m
ProverHLenOK(h, m) == Len(h) <= m

\* The division check left out.
ProverDivides_Skipped(p, t, h) == TRUE

\* assert p == t * h
ProverDivides(p, t, h) == p = PolyMul(t, h)

\* Bw = sum([bUis[k-n_stmt] * a[k] for k in range(n_stmt, n)], G*0)
ProverBw(bUis, w, ns, n) == GSum(bUis, Suffix(w, ns), n - ns)

NoProof == <<>>

Abort(kind, ln, wk) ==
  [res |-> kind, line |-> ln, pi |-> NoProof, work |-> wk]

\* The call babysnark_prover(U, n_stmt, CRS, a).
babysnark_prover(Um, ns, crs, w) ==
  LET m == Rows(Um)
      n == Cols(Um)
  IN
  IF n # Len(w) THEN Abort("AssertionError", 145, <<>>)
  ELSE IF ~ProverCRSLenOK(Um, ns, crs) THEN Abort("AssertionError", 146, <<>>)
  ELSE
    LET taus == Prefix(crs, m + 1)
        bUis == NegSlice(crs, n - ns)
        t == vanishing_poly(Roots(m))
        Uk == ColumnPolys(Um)
        vw == Combine(Poly(<<0>>), Uk, w, ns, n)
        v == Combine(vw, Uk, w, 0, ns)
        p == PolySub(PolyMul(v, v), Poly(<<1>>))
        h == PolyQuot(p, t)
        polys == <<"vanishing", "interpolate", "vw", "v", "p", "divide">>
    IN
    IF ~ProverDivides(p, t, h) THEN Abort("AssertionError", 173, polys)
    ELSE IF ~ProverVwLenOK(vw, m) THEN Abort("AssertionError", 174, polys)
    ELSE IF ~ProverHLenOK(h, m) THEN Abort("AssertionError", 175, polys)
    ELSE IF Len(taus) < Len(h) THEN Abort("IndexError", 178, polys)
    ELSE IF Len(taus) < m \/ Len(vw) < m
      THEN Abort("IndexError", 182, polys \o <<"H">>)
    ELSE IF Len(bUis) < n - ns \/ Len(w) < n
      THEN Abort("IndexError", 186, polys \o <<"H", "Vw">>)
    ELSE [res |-> "ok", line |-> 194,
          pi |-> <<GSum(taus, h, Len(h)), ProverBw(bUis, w, ns, n),
                   GSum(taus, vw, m)>>,
          work |-> polys \o <<"H", "Vw", "Bw">>]

----------------------------------------------------------------------------
\* Verifier

\* Check 1 left out.
Check1_Skipped(Bw, Vw, gammaG, gammabetaG) == TRUE

\* assert Bw.pair(gamma) == Vw.pair(gammabeta)
Check1(Bw, Vw, gammaG, gammabetaG) == pair(Bw, gammaG) = pair(Vw, gammabetaG)

\* assert H.pair(T) * GT == V.pair(V)
Check2(H, T, V) == GTMul(pair(H, T), GT) = pair(V, V)

\* vs = Poly([0]); for k in range(n_stmt): vs += a[k] * Us[k]
\* The body reads the module-level names n_stmt and a (g_n_stmt, g_a); the
\* parameter a_stmt is not read.
VerifierVs(Uk, a_stmt, g_n_stmt, g_a) == Combine(Poly(<<0>>), Uk, g_a, 0, g_n_stmt)

Outcome(kind, ln, vs) == [res |-> kind, line |-> ln, Vs |-> vs]

\* The call babysnark_verifier(U, CRS, a_stmt, pi), with the module-level
\* n_stmt and a it reads passed as g_n_stmt and g_a.
babysnark_verifier(Um, crs, a_stmt, proof, g_n_stmt, g_a) ==
  LET m == Rows(Um)
      n == Cols(Um)
      H == proof[1]
      Bw == proof[2]
      Vw == proof[3]
      taus == Prefix(crs, m + 1)
      t == vanishing_poly(Roots(m))
      Uk == ColumnPolys(Um)
      vs == VerifierVs(Uk, a_stmt, g_n_stmt, g_a)
  IN
  IF Len(crs) < m + 3 THEN Outcome("IndexError", 204, NoVal)
  ELSE IF Len(g_a) < g_n_stmt \/ n < g_n_stmt THEN Outcome("IndexError", 219, NoVal)
  ELSE IF Len(vs) < m THEN Outcome("IndexError", 221, NoVal)
  ELSE
    LET T == GSum(taus, t, m + 1)
        Vs == GSum(taus, vs, m)
        V == GAdd(Vs, Vw)
    IN
    IF ~Check1(Bw, Vw, crs[m + 2], crs[m + 3]) THEN Outcome("AssertionError", 226, Vs)
    ELSE IF ~Check2(H, T, V) THEN Outcome("AssertionError", 230, Vs)
    ELSE Outcome("True", 232, Vs)

----------------------------------------------------------------------------
\* The module-level run: an instance, then Setup, Prove, Verify

VARIABLES U, a, n_stmt, tau, beta, gamma, CRS, pi, pc,
          setupOut, proveOut, verifyOut, proveNs, proveA, bwA, verArg

vars == <<U, a, n_stmt, tau, beta, gamma, CRS, pi, pc,
          setupOut, proveOut, verifyOut, proveNs, proveA, bwA, verArg>>

NotRun == [res |-> "none", line |-> 0]

\* w with one entry negated
Negated(w) == {[w EXCEPT ![k] = FNeg(w[k])] : k \in 1..Len(w)}

\* w with one entry set to zero
Zeroed(w) == {[w EXCEPT ![k] = 0] : k \in 1..Len(w)}

\* Witness vectors that differ from w in at most one entry, that entry
\* negated or set to zero.
Tampered(w) == {w} \cup Negated(w) \cup Zeroed(w)

\* Arguments (n_stmt, a) the prover is called with: the script's n_stmt with a
\* witness of Tampered(a), or another n_stmt with the script's a.
ProverArgs == {<<n_stmt, w>> : w \in Tampered(a)} \cup {<<ns, a>> : ns \in 0..N}

\* Statements the verifier is called with: a[:n_stmt], or that prefix of a
\* with one entry negated.
VerifierArgs == {Prefix(w, n_stmt) : w \in {a} \cup Negated(a)}

\* U, a = generate_solved_instance(m, n): any U, a with (U.a)^2 = 1;
\* n_stmt is the statement length the script fixes.
Init ==
  /\ U \in [1..M -> [1..N -> UVals]]
  /\ a \in [1..N -> AVals]
  /\ Satisfies(U, a)
  /\ n_stmt \in 0..N
  /\ tau = NoVal /\ beta = NoVal /\ gamma = NoVal
  /\ CRS = <<>>
  /\ pi = NoProof
  /\ pc = "setup"
  /\ setupOut = NotRun /\ proveOut = NotRun /\ verifyOut = NotRun
  /\ proveNs = 0 /\ proveA = <<>> /\ bwA = <<>> /\ verArg = <<>>

\* CRS = babysnark_setup(U, n_stmt)
Setup ==
  /\ pc = "setup"
  /\ \E td \in Trapdoors :
       \E r \in {babysnark_setup(U, n_stmt, td[1], td[2], td[3],
                                  <<tau, beta, gamma>>)} :
           /\ setupOut' = [res |-> r.res, line |-> r.line, work |-> r.work]
           /\ tau' = r.trap[1] /\ beta' = r.trap[2] /\ gamma' = r.trap[3]
           /\ CRS' = r.CRS
           /\ pc' = IF r.res = "ok" THEN "prove" ELSE "done"
  /\ UNCHANGED <<U, a, n_stmt, pi, proveOut, verifyOut, proveNs, proveA, bwA,
                 verArg>>

\* H, Bw, Vw = babysnark_prover(U, ns, CRS, w)
Prove ==
  /\ pc = "prove"
  /\ \E arg \in ProverArgs :
       \E r \in {babysnark_prover(U, arg[1], CRS, arg[2])} :
           /\ proveOut' = [res |-> r.res, line |-> r.line, work |-> r.work]
           /\ pi' = r.pi
           /\ proveNs' = arg[1] /\ proveA' = arg[2] /\ bwA' = arg[2]
           /\ pc' = IF r.res = "ok" THEN "verify" ELSE "done"
  /\ UNCHANGED <<U, a, n_stmt, tau, beta, gamma, CRS, setupOut, verifyOut,
                 verArg>>

\* From the proof of the script's own witness a: a proof that keeps H and Vw
\* and takes Bw from the prover's step 4 run on a with one witness-only entry
\* negated.
Forge ==
  /\ pc = "verify"
  /\ proveA = a /\ bwA = a
  /\ \E k \in (proveNs + 1)..Cols(U) :
       \E w \in {[a EXCEPT ![k] = FNeg(a[k])]} :
         /\ pi' = <<pi[1],
                    ProverBw(NegSlice(CRS, Cols(U) - proveNs), w, proveNs, Cols(U)),
                    pi[3]>>
         /\ bwA' = w
  /\ UNCHANGED <<U, a, n_stmt, tau, beta, gamma, CRS, pc, setupOut, proveOut,
                 verifyOut, proveNs, proveA, verArg>>

\* babysnark_verifier(U, CRS, arg, (H, Bw, Vw))
Verify ==
  /\ pc = "verify"
  /\ \E arg \in VerifierArgs :
       \E r \in {babysnark_verifier(U, CRS, arg, pi, n_stmt, a)} :
         /\ verifyOut' = r
         /\ verArg' = arg
  /\ pc' = "done"
  /\ UNCHANGED <<U, a, n_stmt, tau, beta, gamma, CRS, pi, setupOut, proveOut,
                 proveNs, proveA, bwA>>

Next == Setup \/ Prove \/ Forge \/ Verify

Spec == Init /\ [][Next]_vars

----------------------------------------------------------------------------
\* Properties

\* The statement the script passes: a[:n_stmt]
Statement == Prefix(a, n_stmt)

\* (m+1) + 2 + (n - ns)
CRSLen(ns) == (M + 1) + 2 + (N - ns)

SetupRan == setupOut.res # "none"
ProveRan == proveOut.res # "none"
VerifyRan == verifyOut.res # "none"

\* Value at x of the interpolant of column k of Um over the points 1..m, by
\* the Lagrange formula on the matrix entries.
LagrangeAt(Um, k, x) ==
  LET m == Rows(Um)
      RECURSIVE Term(_, _)
      Term(i, j) ==
        IF j > m THEN 1
        ELSE IF j = i THEN Term(i, j + 1)
        ELSE FMul(FDiv(FSub(x, j % P), FSub(i % P, j % P)), Term(i, j + 1))
      RECURSIVE Sum(_)
      Sum(i) == IF i > m THEN 0
                ELSE FAdd(FMul(Um[i][k], Term(i, 1)), Sum(i + 1))
  IN  Sum(1)

\* sum over the columns lo < k <= hi of w[k] * U_k(x)
RECURSIVE WeightedAt(_, _, _, _, _)
WeightedAt(Um, w, lo, hi, x) ==
  IF lo >= hi THEN 0
  ELSE FAdd(FMul(w[hi], LagrangeAt(Um, hi, x)), WeightedAt(Um, w, lo, hi - 1, x))

\* The run is the script's own: Prove on (n_stmt, a), no forged Bw, Verify on
\* a[:n_stmt].
HonestProve == ProveRan /\ proveNs = n_stmt /\ proveA = a
HonestVerify == VerifyRan /\ HonestProve /\ bwA = a /\ verArg = Statement

\* C1: completeness: on a valid instance with n_stmt < n, Setup, Prove on a
\* and Verify on a[:n_stmt] all run without aborting and Verify returns True.
C1_Completeness ==
  /\ (SetupRan /\ n_stmt < N => setupOut.res = "ok")
  /\ (HonestProve => proveOut.res = "ok")
  /\ (HonestVerify => verifyOut.res = "True")

\* The pairing checks, recomputed on the proof and CRS the verifier was given
FailsCheck1 == ~Check1(pi[2], pi[3], CRS[M + 2], CRS[M + 3])
FailsCheck2 ==
  /\ verifyOut.Vs # NoVal
  /\ ~Check2(pi[1], GSum(Prefix(CRS, M + 1), vanishing_poly(Roots(M)), M + 1),
             GAdd(verifyOut.Vs, pi[3]))

\* C2: when Check 1 or Check 2 does not hold, Verify returns False instead of
\* raising an error.
C2_RejectIsAValue ==
  VerifyRan /\ (FailsCheck1 \/ FailsCheck2) => verifyOut.res = "False"

\* C3: Prove on a well-formed CRS with a witness that does not satisfy
\* (U.a)^2 = 1 aborts and returns no proof.
C3_ProverRefusesUnsatisfied ==
  ProveRan /\ Len(CRS) = CRSLen(proveNs) /\ ~Satisfies(U, proveA)
    => proveOut.res = "AssertionError" /\ proveOut.line = 173 /\ pi = NoProof

C3_Witness ==
  /\ ProveRan /\ Len(CRS) = CRSLen(proveNs) /\ ~Satisfies(U, proveA)
  /\ proveOut.line = 173

\* C4: the Vs the verifier computes is the commitment to the statement it is
\* given: Vs = sum_{k < len(a_stmt)} a_stmt[k] * U_k(tau) * G.
C4_VsFromArgument ==
  VerifyRan /\ verifyOut.Vs # NoVal
    => verifyOut.Vs = GMul(G, WeightedAt(U, verArg, 0, Len(verArg), tau))

\* C5: the CRS Setup returns has (m+1) + 2 + (n - n_stmt) elements: tau^i * G
\* for i = 0..m, gamma * G, (beta*gamma) * G, then beta * U_k(tau) * G for the
\* witness-only columns k in order.
C5_CRSShape ==
  setupOut.res = "ok" =>
    /\ Len(CRS) = CRSLen(n_stmt)
    /\ CRS[1] = G
    /\ \A i \in 1..M : CRS[i + 1] = GMul(CRS[i], tau)
    /\ CRS[M + 2] = GMul(G, gamma)
    /\ CRS[M + 3] = GMul(G, FMul(beta, gamma))
    /\ \A k \in (n_stmt + 1)..N :
         CRS[M + 3 + (k - n_stmt)] = GMul(G, FMul(beta, LagrangeAt(U, k, tau)))

C5_Witness ==
  /\ setupOut.res = "ok" /\ n_stmt >= 1 /\ N - n_stmt >= 1
  /\ gamma # 0 /\ CRS[M + 3] # 0
  /\ \E k \in (n_stmt + 1)..N : CRS[M + 3 + (k - n_stmt)] # 0

\* C6: Setup with n_stmt >= n aborts before it samples a trapdoor or builds a
\* CRS element; Prove with a CRS of the wrong length aborts before it
\* interpolates, divides or computes a group element.
C6_InvalidRejectedFirst ==
  /\ (SetupRan /\ n_stmt >= N =>
        /\ setupOut.res = "AssertionError" /\ setupOut.work = <<>>
        /\ tau = NoVal /\ beta = NoVal /\ gamma = NoVal /\ CRS = <<>>)
  /\ (ProveRan /\ Len(CRS) # CRSLen(proveNs) =>
        /\ proveOut.res = "AssertionError" /\ proveOut.work = <<>>
        /\ pi = NoProof)

C6_Witness ==
  ProveRan /\ Len(CRS) # CRSLen(proveNs) /\ proveOut.line = 146

\* C7: after Setup returns, no module-level variable holds tau, beta or gamma.
C7_TrapdoorNotRetained ==
  setupOut.res = "ok" => tau = NoVal /\ beta = NoVal /\ gamma = NoVal

\* The proof carries a Bw computed from a witness whose witness-only
\* combination sum_k a'_k U_k differs from the vw that Vw commits to (the two
\* polynomials of degree < m differ on some row).
ForgedBw ==
  /\ pi # NoProof /\ bwA # proveA
  /\ \E i \in 1..M :
       Dot(Suffix(U[i], proveNs), Suffix(bwA, proveNs))
         # Dot(Suffix(U[i], proveNs), Suffix(proveA, proveNs))

\* (vw' - vw)(tau) = 0
SameAtTau ==
  WeightedAt(U, bwA, proveNs, N, tau) = WeightedAt(U, proveA, proveNs, N, tau)

\* C8 as stated: for every trapdoor, a proof with the honest Vw and a Bw from
\* a different witness-only vector is not accepted by Verify.
C8_BindingEveryTrapdoor ==
  VerifyRan /\ ForgedBw => verifyOut.res # "True"

\* C8 amended: such a proof is not accepted when beta # 0, gamma # 0 and the
\* two witness polynomials differ at tau; Check 1 is the check that fails
\* whenever the verifier reaches it.
C8_BindingNondegenerate ==
  VerifyRan /\ ForgedBw /\ beta # 0 /\ gamma # 0 /\ ~SameAtTau
    => /\ verifyOut.res # "True"
       /\ (verifyOut.Vs # NoVal => verifyOut.line = 226)

C8_Witness ==
  /\ VerifyRan /\ ForgedBw /\ beta # 0 /\ gamma # 0 /\ ~SameAtTau
  /\ verifyOut.line = 226

\* Prove ran on a with one witness-only entry negated
TamperedRun ==
  /\ ProveRan /\ proveNs = n_stmt /\ proveA # a
  /\ \E k \in (n_stmt + 1)..N : proveA = [a EXCEPT ![k] = FNeg(a[k])]

\* C9 as stated: after negating one witness-only entry, Setup, Prove on the
\* modified witness and Verify on a[:n_stmt] never ends with True.
C9_TamperedNeverAccepted ==
  TamperedRun /\ VerifyRan /\ verArg = Statement => verifyOut.res # "True"

\* C9 amended: when the modified witness no longer satisfies (U.a)^2 = 1,
\* Prove aborts, so no proof exists and Verify is never reached.
C9_TamperedUnsatisfiedRejected ==
  TamperedRun /\ ~Satisfies(U, proveA)
    => proveOut.res = "AssertionError" /\ pi = NoProof /\ pc = "done"
       /\ ~VerifyRan

C9_Witness ==
  TamperedRun /\ ~Satisfies(U, proveA) /\ proveOut.res = "AssertionError"

\* C10: on a valid instance the degree check passes, also when vw has fewer
\* than m coefficients.
C10_DegreeCheckPasses ==
  ProveRan /\ Len(CRS) = CRSLen(proveNs) /\ Satisfies(U, proveA)
    => proveOut.line \notin {174, 175}

====
